---- MODULE Spec2Model ----
(***************************************************************************)
(* lsp-bench: the benchmark driver (src/src/index.ts, main) and the        *)
(* offset/line/column index it uses (src/src/line_table.ts, LineTable).    *)
(*                                                                         *)
(* A text is a sequence of UTF-16 code units (numbers), so text[i+1] is    *)
(* the source's text.charCodeAt(i): offsets in the source are 0-based and  *)
(* are kept 0-based here.  A JavaScript array a is the sequence whose      *)
(* element k+1 is a[k].                                                    *)
(***************************************************************************)
EXTENDS Integers, Sequences, FiniteSets, TLC

\* ------------------------------------------------------------------ bounds
\* Every text of at most MaxLen code units over Alphabet is an input file.
MaxLen == 3
\* The configured file list holds at most MaxFiles entries.
MaxFiles == 2
\* The line table is built for every text of at most MaxLineLen code units
\* over LineAlphabet.
MaxLineLen == 5
\* The binary search is run on every sorted array of at most MaxLines entries
\* between 0 and MaxStart.
MaxLines == 4
MaxStart == 4

\* ------------------------------------------------------- characters, texts
lineFeed == 10
carriageReturn == 13

\* a, 1, space, slash, star, LF, CR: one code unit of every class the driver
\* and the line table tell apart.
Alphabet == {97, 49, 32, 47, 42, lineFeed, carriageReturn}

Str_foo_bar == <<102, 111, 111, 32, 98, 97, 114>>
Str_comment_foo_bar == <<47, 47, 32>> \o Str_foo_bar
Str_foo_ == <<102, 111, 111, 32>>
Str_a_crlf_b == <<97, 13, 10, 98>>

RECURSIVE SeqsUpTo(_, _)
SeqsUpTo(S, n) ==
    IF n = 0 THEN {<< >>}
    ELSE LET shorter == SeqsUpTo(S, n - 1)
         IN  shorter \cup {Append(s, c) : s \in {x \in shorter : Len(x) = n - 1}, c \in S}

ScenarioTexts == {Str_foo_bar, Str_comment_foo_bar, Str_a_crlf_b}
Texts == SeqsUpTo(Alphabet, MaxLen) \cup ScenarioTexts

\* String.prototype.substring(start, end) for 0 <= start <= end <= length.
substring(text, start, end) == SubSeq(text, start + 1, end)

\* ---------------------------------------------------------------- LineTable
\* The constructor's scan without the look-ahead for a line feed after a
\* carriage return.
RECURSIVE LineStartsNoLookAhead(_, _, _)
LineStartsNoLookAhead(text, i, lineStarts) ==
    IF i >= Len(text) THEN lineStarts
    ELSE IF text[i + 1] \in {lineFeed, carriageReturn}
         THEN LineStartsNoLookAhead(text, i + 1, Append(lineStarts, i + 1))
         ELSE LineStartsNoLookAhead(text, i + 1, lineStarts)

\* The constructor's scan, from index i with the line starts found so far.
RECURSIVE LineStartsFrom(_, _, _)
LineStartsFrom(text, i, lineStarts) ==
    IF i >= Len(text) THEN lineStarts
    ELSE LET ch == text[i + 1]
         IN  IF ch = lineFeed
             THEN LineStartsFrom(text, i + 1, Append(lineStarts, i + 1))
             ELSE IF ch = carriageReturn
             THEN LET j == IF i + 1 < Len(text) /\ text[i + 2] = lineFeed
                           THEN i + 1 ELSE i
                  IN  LineStartsFrom(text, j + 1, Append(lineStarts, j + 1))
             ELSE LineStartsFrom(text, i + 1, lineStarts)

\* new LineTable(text) with text.length pushed unconditionally.
LineTableAlwaysSentinel(text) ==
    Append(LineStartsFrom(text, 0, <<0>>), Len(text))

\* new LineTable(text): the lineStarts array.
LineTable(text) ==
    LET lineStarts == LineStartsFrom(text, 0, <<0>>)
    IN  IF lineStarts[Len(lineStarts)] # Len(text)
        THEN Append(lineStarts, Len(text))
        ELSE lineStarts

\* (high - low) >> 1
ShiftRight1(n) == n \div 2

\* The loop of getLowerBound comparing with <= instead of <.
RECURSIVE LowerBoundLoopOrEqual(_, _, _, _)
LowerBoundLoopOrEqual(array, value, low, high) ==
    IF low < high
    THEN LET mid == high - ShiftRight1(high - low)
         IN  IF value <= array[mid + 1]
             THEN LowerBoundLoopOrEqual(array, value, low, mid - 1)
             ELSE LowerBoundLoopOrEqual(array, value, mid, high)
    ELSE low

RECURSIVE LowerBoundLoop(_, _, _, _)
LowerBoundLoop(array, value, low, high) ==
    IF low < high
    THEN LET mid == high - ShiftRight1(high - low)
         IN  IF value < array[mid + 1]
             THEN LowerBoundLoop(array, value, low, mid - 1)
             ELSE LowerBoundLoop(array, value, mid, high)
    ELSE low

getLowerBound(array, value) ==
    LET high == Len(array) - 1
    IN  IF value < array[1] THEN 0
        ELSE IF value >= array[high + 1] THEN high
        ELSE LowerBoundLoop(array, value, 0, high)

getStartOfLine(lineStarts, line) == lineStarts[line + 1]

getLineFromOffset(lineStarts, offset) == getLowerBound(lineStarts, offset)

getColumnFromLineAndOffset(lineStarts, line, offset) ==
    offset - lineStarts[line + 1]

\* get1BasedLineAndColumn with the column left 0-based.
Get1BasedColumnOffByOne(lineStarts, offset) ==
    LET line == getLineFromOffset(lineStarts, offset)
        column == getColumnFromLineAndOffset(lineStarts, line, offset)
    IN  [line |-> line + 1, column |-> column]

get1BasedLineAndColumn(lineStarts, offset) ==
    LET line == getLineFromOffset(lineStarts, offset)
        column == getColumnFromLineAndOffset(lineStarts, line, offset)
    IN  [line |-> line + 1, column |-> column + 1]

\* ------------------------------------------------------ regular expressions
\* \s of a JavaScript regular expression (the code units below 256, and the
\* Unicode line and paragraph separators).
IsWhiteSpace(c) == c \in {9, 10, 11, 12, 13, 32, 160, 8232, 8233}

\* [a-z_] with the i flag.
IsWordStart(c) == c \in (65..90) \cup (97..122) \cup {95}

\* [a-z_0-9] with the i flag.
IsWordPart(c) == IsWordStart(c) \/ c \in 48..57

\* The split on every single CR and LF, a CR-LF pair giving two breaks.
RECURSIVE SplitEachTerminator(_, _, _, _)
SplitEachTerminator(text, i, cur, pieces) ==
    IF i >= Len(text) THEN Append(pieces, cur)
    ELSE IF text[i + 1] \in {lineFeed, carriageReturn}
         THEN SplitEachTerminator(text, i + 1, << >>, Append(pieces, cur))
         ELSE SplitEachTerminator(text, i + 1, Append(cur, text[i + 1]), pieces)

\* text.split(/\r\n?|\n/), scanning from index i; cur is the piece being built.
RECURSIVE SplitFrom(_, _, _, _)
SplitFrom(text, i, cur, pieces) ==
    IF i >= Len(text) THEN Append(pieces, cur)
    ELSE LET ch == text[i + 1]
         IN  IF ch = carriageReturn
             THEN LET j == IF i + 1 < Len(text) /\ text[i + 2] = lineFeed
                           THEN i + 2 ELSE i + 1
                  IN  SplitFrom(text, j, << >>, Append(pieces, cur))
             ELSE IF ch = lineFeed
             THEN SplitFrom(text, i + 1, << >>, Append(pieces, cur))
             ELSE SplitFrom(text, i + 1, Append(cur, ch), pieces)

splitLines(text) == SplitFrom(text, 0, << >>, << >>)

\* The index of the first code unit of s, at or after i, that \s* stops at.
RECURSIVE SkipWhiteSpace(_, _)
SkipWhiteSpace(s, i) ==
    IF i < Len(s) /\ IsWhiteSpace(s[i + 1]) THEN SkipWhiteSpace(s, i + 1) ELSE i

\* The comment test without the leading \s*.
CommentRegexNoLeadingSpace(s) ==
    \/ Len(s) >= 1 /\ s[1] = 42
    \/ Len(s) >= 2 /\ s[1] = 47 /\ s[2] \in {42, 47}

\* /^\s*(\*|\/\*|\/\/)/.test(s)
commentRegexTest(s) ==
    LET i == SkipWhiteSpace(s, 0)
    IN  \/ i < Len(s) /\ s[i + 1] = 42
        \/ i + 1 < Len(s) /\ s[i + 1] = 47 /\ s[i + 2] \in {42, 47}

RECURSIVE WordEnd(_, _)
WordEnd(text, i) ==
    IF i < Len(text) /\ IsWordPart(text[i + 1]) THEN WordEnd(text, i + 1) ELSE i

\* wordRegex.exec(text) with the g flag, from lastIndex: the leftmost match at
\* or after lastIndex, as [index, end], or found = FALSE for null.
RECURSIVE wordRegexExec(_, _)
wordRegexExec(text, lastIndex) ==
    IF lastIndex >= Len(text) THEN [found |-> FALSE, index |-> 0, end |-> 0]
    ELSE IF IsWordStart(text[lastIndex + 1])
    THEN [found |-> TRUE, index |-> lastIndex, end |-> WordEnd(text, lastIndex + 1)]
    ELSE wordRegexExec(text, lastIndex + 1)

\* ------------------------------------------------------------ configuration
\* The files of the disk: link.ql is a symbolic link to a.ql.
Paths == {"a.ql", "b.ql", "link.ql"}

\* fs.realpathSync(file)
realpathSync(file) == IF file = "link.ql" THEN "a.ql" ELSE file

\* pathToFileURL(path).toString()
pathToFileURL(path) ==
    CASE path = "a.ql" -> "file:///work/a.ql"
      [] path = "b.ql" -> "file:///work/b.ql"
      [] OTHER -> "file:///work/link.ql"

\* The file lists of the command line: at most MaxFiles paths, in any order,
\* repeats included.
FileLists == SeqsUpTo(Paths, MaxFiles)

\* The option arguments of the command line: the file arguments in order,
\* whether --jump is given, and the values of the --language= arguments in
\* order (none, or one).
ArgLists ==
    [files : FileLists, jump : BOOLEAN, languages : {<< >>, <<"python">>}]

\* parseOptions(): the Config of the option arguments.
parseOptions(args) ==
    [files   |-> args.files,
     options |-> [jumpToDef |-> args.jump,
                  language  |-> IF args.languages = << >> THEN "codeql"
                                ELSE args.languages[Len(args.languages)]]]

\* What the server answers to a measured request: no result, a list, an
\* object carrying items, any other object.
Results ==
    {[shape |-> "null", length |-> 0],
     [shape |-> "array", length |-> 0],
     [shape |-> "array", length |-> 3],
     [shape |-> "items", length |-> 2],
     [shape |-> "object", length |-> 0]}

NoResult == [shape |-> "null", length |-> 0]

\* ------------------------------------------------------------------- state
VARIABLES
    pc,             \* the position of main
    config,         \* parseOptions()
    disk,           \* the content of every real file
    fileIdx,        \* the position of `for (let file of config.files)`
    uri, text, lines, lineTable, versionNumber,   \* the locals of the file loop
    lastIndex,      \* wordRegex.lastIndex
    cur,            \* the locals of the token loop
    result,         \* the result of the measured request
    measurement,    \* the last Measurement handed to the reporter
    pending,        \* the places in log of the requests not yet answered
    exitWritten,    \* whether the exit notification reached the transport
    log             \* everything sent, received and reported, in order

vars == <<pc, config, disk, exitWritten, fileIdx, uri, text, lines, lineTable, versionNumber,
          lastIndex, cur, result, measurement, pending, log>>

fileVars == <<uri, text, lines, lineTable>>

\* One entry of log.  site is the place of main that produced it.
Event(site, method) ==
    [site |-> site, method |-> method, uri |-> "", version |-> 0, text |-> << >>,
     languageId |-> "", line |-> 0, character |-> 0, index |-> 0, end |-> 0,
     file |-> ""]

NoToken ==
    [matchIndex |-> 0, matchEndIndex |-> 0, line |-> 0, column |-> 0,
     modifiedVersion |-> 0, replacedText |-> << >>]

NoMeasurement == [file |-> "", line |-> 0, column |-> 0, numberOfResults |-> 0]

file == config.files[fileIdx]

\* The content of the disk: a.ql holds any text; the other files, and a.ql
\* when it is not the only file processed, hold the scenario texts.
Init ==
    /\ \E args \in ArgLists, t \in Texts :
          /\ args.files # <<"a.ql">> => t \in ScenarioTexts
          /\ config = parseOptions(args)
          /\ disk = [p \in {"a.ql", "b.ql"} |->
                        IF p = "a.ql" THEN t ELSE Str_comment_foo_bar \o <<lineFeed, 97>>]
    /\ pc = "initialize"
    /\ fileIdx = 1
    /\ uri = "" /\ text = << >> /\ lines = << >> /\ lineTable = << >>
    /\ versionNumber = 0
    /\ lastIndex = 0
    /\ cur = NoToken
    /\ result = NoResult
    /\ measurement = NoMeasurement
    /\ pending = {}
    /\ exitWritten = FALSE
    /\ log = << >>

\* ---------------------------------------------------------------- handshake
\* SendInitialize without the await of the response.
SendInitializeNoAwait ==
    /\ pc = "initialize"
    /\ log' = Append(log, Event("initialize", "initialize"))
    /\ pending' = pending \cup {Len(log) + 1}
    /\ pc' = "initialized"
    /\ UNCHANGED <<config, disk, exitWritten, fileIdx, fileVars, versionNumber, lastIndex, cur,
                   result, measurement>>

\* connection.sendRequest(lsp.InitializeRequest.type, params)
SendInitialize ==
    /\ pc = "initialize"
    /\ log' = Append(log, Event("initialize", "initialize"))
    /\ pending' = pending \cup {Len(log) + 1}
    /\ pc' = "awaitInitialize"
    /\ UNCHANGED <<config, disk, exitWritten, fileIdx, fileVars, versionNumber, lastIndex, cur,
                   result, measurement>>

\* The await of the initialize request resumes with the server's result.
InitializeResult ==
    /\ pc = "awaitInitialize"
    /\ log' = Append(log, Event("initializeResult", "initialize"))
    /\ pending' = {}
    /\ pc' = "initialized"
    /\ UNCHANGED <<config, disk, exitWritten, fileIdx, fileVars, versionNumber, lastIndex, cur,
                   result, measurement>>

\* The server answers the initialize request with an error: the await throws,
\* main has no handler, and nothing more is sent.
InitializeError ==
    /\ pc = "awaitInitialize"
    /\ log' = Append(log, Event("initializeError", "initialize"))
    /\ pending' = {}
    /\ pc' = "failed"
    /\ UNCHANGED <<config, disk, exitWritten, fileIdx, fileVars, versionNumber, lastIndex, cur,
                   result, measurement>>

\* connection.sendNotification(lsp.InitializedNotification.type, {})
SendInitialized ==
    /\ pc = "initialized"
    /\ log' = Append(log, Event("initialized", "initialized"))
    /\ pc' = "files"
    /\ UNCHANGED <<config, disk, exitWritten, fileIdx, fileVars, versionNumber, lastIndex, cur,
                   result, measurement, pending>>

\* ---------------------------------------------------------------- file loop
\* The language identifier of lsp.TextDocumentItem.create(uri, 'codeql', ...).
textDocumentLanguageId(options) == "codeql"

\* for (let file of config.files): the next file is read and opened.
OpenFile ==
    /\ pc = "files"
    /\ fileIdx <= Len(config.files)
    /\ LET content == disk[realpathSync(file)]
           u == pathToFileURL(realpathSync(file))
       IN  /\ uri' = u
           /\ text' = content
           /\ lines' = splitLines(content)
           /\ lineTable' = LineTable(content)
           /\ versionNumber' = 1
           /\ log' = Append(log, [Event("didOpen", "textDocument/didOpen") EXCEPT
                                     !.uri = u, !.version = 1, !.text = content,
                                     !.languageId = textDocumentLanguageId(config.options),
                                     !.file = file])
    /\ lastIndex' = 0
    /\ pc' = "scan"
    /\ UNCHANGED <<config, disk, exitWritten, fileIdx, cur, result, measurement, pending>>

\* connection.sendNotification(lsp.ExitNotification.type) is not awaited, unlike
\* every other sendNotification of main: connection.dispose() and
\* process.exit(0) follow in the same turn, so the notification may or may
\* not have been written when the process ends.
exitWriteOutcomes == BOOLEAN

\* After the last file: the exit notification, connection.dispose(),
\* process.exit(0).
Exit ==
    /\ pc = "files"
    /\ fileIdx > Len(config.files)
    /\ log' = Append(log, Event("exit", "exit"))
    /\ exitWritten' \in exitWriteOutcomes
    /\ pc' = "done"
    /\ UNCHANGED <<config, disk, fileIdx, fileVars, versionNumber, lastIndex, cur,
                   result, measurement, pending>>

\* --------------------------------------------------------------- token loop
match == wordRegexExec(text, lastIndex)

matchPosition == get1BasedLineAndColumn(lineTable, match.index)

\* commentRegex.test(lines[line - 1])
\* The comment test on lines[line] instead of lines[line - 1].
OnCommentLineOffByOne(lns, line) == line < Len(lns) /\ commentRegexTest(lns[line + 1])

onCommentLine(lns, line) == commentRegexTest(lns[line])

\* replacedText with the space inserted before the word.
ReplacedTextOffByOne(txt, jumpToDef, matchIndex, matchEndIndex) ==
    IF jumpToDef
    THEN substring(txt, 0, matchIndex) \o <<32>> \o substring(txt, matchIndex, Len(txt))
    ELSE substring(txt, 0, matchIndex) \o substring(txt, matchEndIndex, Len(txt))

\* replacedText: a space inserted after the word, or the word deleted.
replacedTextOf(txt, jumpToDef, matchIndex, matchEndIndex) ==
    IF jumpToDef
    THEN substring(txt, 0, matchEndIndex) \o <<32>> \o substring(txt, matchEndIndex, Len(txt))
    ELSE substring(txt, 0, matchIndex) \o substring(txt, matchEndIndex, Len(txt))

\* The second didChange sending the probe text again.
RevertTextKeepsProbe(txt, replacedText) == replacedText

\* The text of the second didChange.
revertText(txt, replacedText) == txt

\* The second didChange reusing the version of the first.
RevertVersionNotBumped(v) == v

\* ++versionNumber of the second didChange.
revertVersion(v) == v + 1

\* lsp.Position.create(line, column)
startPos(line, column) == [line |-> line, character |-> column]

requestMethod(jumpToDef) ==
    IF jumpToDef THEN "textDocument/definition" ELSE "textDocument/completion"

\* numberOfResults without the 'items' in result branch.
NumberOfResultsWithoutItems(r) ==
    IF r.shape = "null" THEN 0
    ELSE IF r.shape = "array" THEN r.length
    ELSE 1

\* numberOfResults of a result.
numberOfResultsOf(r) ==
    IF r.shape = "null" THEN 0
    ELSE IF r.shape = "array" THEN r.length
    ELSE IF r.shape = "items" THEN r.length
    ELSE 1

\* wordRegex.exec(text) is null: the while loop ends, the for loop advances.
ScanEnd ==
    /\ pc = "scan"
    /\ ~match.found
    /\ lastIndex' = 0
    /\ fileIdx' = fileIdx + 1
    /\ pc' = "files"
    /\ UNCHANGED <<config, disk, exitWritten, fileVars, versionNumber, cur, result, measurement,
                   pending, log>>

\* The word starts on a comment line: continue.
SkipToken ==
    /\ pc = "scan"
    /\ match.found
    /\ onCommentLine(lines, matchPosition.line)
    /\ lastIndex' = match.end
    /\ cur' = [NoToken EXCEPT !.matchIndex = match.index, !.matchEndIndex = match.end,
                              !.line = matchPosition.line,
                              !.column = matchPosition.column]
    /\ UNCHANGED <<pc, config, disk, exitWritten, fileIdx, fileVars, versionNumber, result,
                   measurement, pending, log>>

\* The first didChange of a word: the probe text, under the next version.
SendProbe ==
    /\ pc = "scan"
    /\ match.found
    /\ ~onCommentLine(lines, matchPosition.line)
    /\ lastIndex' = match.end
    /\ versionNumber' = versionNumber + 1
    /\ LET replaced == replacedTextOf(text, config.options.jumpToDef,
                                      match.index, match.end)
       IN  /\ cur' = [matchIndex |-> match.index, matchEndIndex |-> match.end,
                      line |-> matchPosition.line, column |-> matchPosition.column,
                      modifiedVersion |-> versionNumber + 1,
                      replacedText |-> replaced]
           /\ log' = Append(log, [Event("probe", "textDocument/didChange") EXCEPT
                                     !.uri = uri, !.version = versionNumber + 1,
                                     !.text = replaced,
                                     !.index = match.index, !.end = match.end,
                                     !.file = file])
    /\ pc' = "request"
    /\ UNCHANGED <<config, disk, exitWritten, fileIdx, fileVars, result, measurement, pending>>

requestEvent ==
    LET pos == startPos(cur.line, cur.column)
    IN  [Event("request", requestMethod(config.options.jumpToDef)) EXCEPT
            !.uri = uri, !.version = cur.modifiedVersion,
            !.line = pos.line, !.character = pos.character,
            !.index = cur.matchIndex, !.end = cur.matchEndIndex, !.file = file]

\* SendRequest without the await of the response.
SendRequestNoAwait ==
    /\ pc = "request"
    /\ log' = Append(log, requestEvent)
    /\ pending' = pending \cup {Len(log) + 1}
    /\ pc' = "revert"
    /\ UNCHANGED <<config, disk, exitWritten, fileIdx, fileVars, versionNumber, lastIndex, cur,
                   result, measurement>>

\* The measured request: definition or completion at startPos.
SendRequest ==
    /\ pc = "request"
    /\ log' = Append(log, requestEvent)
    /\ pending' = pending \cup {Len(log) + 1}
    /\ pc' = "awaitResult"
    /\ UNCHANGED <<config, disk, exitWritten, fileIdx, fileVars, versionNumber, lastIndex, cur,
                   result, measurement>>

\* The await of the measured request resumes with the server's result.
ReceiveResult ==
    /\ pc = "awaitResult"
    /\ \E r \in Results : result' = r
    /\ log' = Append(log, [Event("result", requestMethod(config.options.jumpToDef))
                              EXCEPT !.uri = uri, !.index = cur.matchIndex,
                                     !.end = cur.matchEndIndex, !.file = file])
    /\ pending' = {}
    /\ pc' = "revert"
    /\ UNCHANGED <<config, disk, exitWritten, fileIdx, fileVars, versionNumber, lastIndex, cur,
                   measurement>>

\* The server answers the measured request with an error: the await throws,
\* main has no handler, and nothing more is sent.
ReceiveError ==
    /\ pc = "awaitResult"
    /\ log' = Append(log, [Event("error", requestMethod(config.options.jumpToDef))
                              EXCEPT !.uri = uri, !.index = cur.matchIndex,
                                     !.end = cur.matchEndIndex, !.file = file])
    /\ pending' = {}
    /\ pc' = "failed"
    /\ UNCHANGED <<config, disk, exitWritten, fileIdx, fileVars, versionNumber, lastIndex, cur,
                   result, measurement>>

\* The second didChange of a word: the original text, under the next version.
SendRevert ==
    /\ pc = "revert"
    /\ versionNumber' = revertVersion(versionNumber)
    /\ log' = Append(log, [Event("revert", "textDocument/didChange") EXCEPT
                              !.uri = uri, !.version = revertVersion(versionNumber),
                              !.text = revertText(text, cur.replacedText),
                              !.index = cur.matchIndex, !.end = cur.matchEndIndex,
                              !.file = file])
    /\ pc' = "report"
    /\ UNCHANGED <<config, disk, exitWritten, fileIdx, fileVars, lastIndex, cur, result,
                   measurement, pending>>

\* reporter({file, line, column, numberOfResults, time}); the time is left out.
Report ==
    /\ pc = "report"
    /\ measurement' = [file |-> file, line |-> cur.line, column |-> cur.column,
                       numberOfResults |-> numberOfResultsOf(result)]
    /\ log' = Append(log, [Event("report", "") EXCEPT
                              !.line = cur.line, !.character = cur.column,
                              !.index = cur.matchIndex, !.end = cur.matchEndIndex,
                              !.file = file])
    /\ pc' = "scan"
    /\ UNCHANGED <<config, disk, exitWritten, fileIdx, fileVars, versionNumber, lastIndex, cur,
                   result, pending>>

Next ==
    \/ SendInitialize
    \/ InitializeResult
    \/ InitializeError
    \/ SendInitialized
    \/ OpenFile
    \/ Exit
    \/ ScanEnd
    \/ SkipToken
    \/ SendProbe
    \/ SendRequest
    \/ ReceiveResult
    \/ ReceiveError
    \/ SendRevert
    \/ Report

Spec == Init /\ [][Next]_vars

\* The event loop resumes every continuation of main that can run, and the
\* server answers every request it is sent.
FairSpec == Spec /\ WF_vars(Next)

\* ------------------------------------------------- the line table on its own
\* a, LF, CR: the line table tells no other code units apart.
LineAlphabet == {97, lineFeed, carriageReturn}

LineTexts == SeqsUpTo(LineAlphabet, MaxLineLen) \cup {Str_a_crlf_b}

\* The sorted, non-empty arrays getLowerBound is specified for.
SortedArrays ==
    {a \in SeqsUpTo(0..MaxStart, MaxLines) :
        a # << >> /\ \A k \in 1..(Len(a) - 1) : a[k] <= a[k + 1]}

\* Either a text whose line table is to be built, or a sorted array to search.
LineInit ==
    /\ \/ /\ text \in LineTexts
          /\ lineTable = << >>
          /\ pc = "construct"
       \/ /\ text = << >>
          /\ lineTable \in SortedArrays
          /\ pc = "search"
    /\ config = parseOptions([files |-> << >>, jump |-> FALSE, languages |-> << >>])
    /\ disk = [p \in {"a.ql", "b.ql"} |-> << >>]
    /\ exitWritten = FALSE
    /\ fileIdx = 1
    /\ uri = "" /\ lines = << >>
    /\ versionNumber = 0
    /\ lastIndex = 0
    /\ cur = NoToken
    /\ result = NoResult
    /\ measurement = NoMeasurement
    /\ pending = {}
    /\ log = << >>

\* new LineTable(text), and the split of the text into lines.
ConstructLineTable ==
    /\ pc = "construct"
    /\ lineTable' = LineTable(text)
    /\ lines' = splitLines(text)
    /\ pc' = "lookup"
    /\ UNCHANGED <<config, disk, exitWritten, fileIdx, uri, text, versionNumber, lastIndex,
                   cur, result, measurement, pending, log>>

\* lineTable.get1BasedLineAndColumn(offset) for an offset of the text, its
\* end included; cur holds the offset and the answer.
QueryLineAndColumn ==
    /\ pc \in {"lookup", "looked"}
    /\ \E offset \in 0..Len(text) :
          LET answer == get1BasedLineAndColumn(lineTable, offset)
          IN  cur' = [NoToken EXCEPT !.matchIndex = offset,
                                     !.line = answer.line, !.column = answer.column]
    /\ pc' = "looked"
    /\ UNCHANGED <<config, disk, exitWritten, fileIdx, fileVars, versionNumber, lastIndex,
                   result, measurement, pending, log>>

\* getLineFromOffset(offset) on a sorted array; cur holds the offset and the
\* answer.
QueryLineFromOffset ==
    /\ pc \in {"search", "searched"}
    /\ \E offset \in 0..(MaxStart + 1) :
          cur' = [NoToken EXCEPT !.matchIndex = offset,
                                 !.line = getLineFromOffset(lineTable, offset)]
    /\ pc' = "searched"
    /\ UNCHANGED <<config, disk, exitWritten, fileIdx, fileVars, versionNumber, lastIndex,
                   result, measurement, pending, log>>

\* One turn of the word scan of main on the text: the next match of
\* wordRegex and its line and column; cur holds the match and the answer.
ScanWord ==
    /\ pc \in {"lookup", "looked", "scanned"}
    /\ match.found
    /\ lastIndex' = match.end
    /\ cur' = [NoToken EXCEPT !.matchIndex = match.index, !.matchEndIndex = match.end,
                              !.line = matchPosition.line,
                              !.column = matchPosition.column]
    /\ pc' = "scanned"
    /\ UNCHANGED <<config, disk, exitWritten, fileIdx, fileVars, versionNumber,
                   result, measurement, pending, log>>

LineNext ==
    \/ ConstructLineTable
    \/ QueryLineAndColumn
    \/ QueryLineFromOffset
    \/ ScanWord

LineSpec == LineInit /\ [][LineNext]_vars

\* ============================================================== properties
\* Reference definitions: lines, columns and words said directly, without the
\* line table, the split or the scan.

\* A line terminator (LF, CR-LF or a lone CR) ends just before offset k.
TerminatorEndsAt(t, k) ==
    /\ k \in 1..Len(t)
    /\ \/ t[k] = lineFeed
       \/ t[k] = carriageReturn /\ ~(k < Len(t) /\ t[k + 1] = lineFeed)

TerminatorsUpTo(t, o) == {k \in 1..o : TerminatorEndsAt(t, k)}

SetMax(S) == CHOOSE m \in S : \A x \in S : x <= m

SetMin(S) == CHOOSE m \in S : \A x \in S : m <= x

RefLine(t, o) == 1 + Cardinality(TerminatorsUpTo(t, o))

RefLineStart(t, o) == SetMax({0} \cup TerminatorsUpTo(t, o))

RefColumn(t, o) == 1 + (o - RefLineStart(t, o))

\* The text of the physical line that holds offset o, its terminator left out.
RefLineText(t, o) ==
    LET from == RefLineStart(t, o)
        to == SetMin({k \in from..Len(t) :
                        k = Len(t) \/ t[k + 1] \in {lineFeed, carriageReturn}})
    IN  SubSeq(t, from + 1, to)

\* The first characters of s that are not white space are *, /* or //.
RefIsCommentLine(s) ==
    \E i \in 1..Len(s) :
        /\ \A k \in 1..(i - 1) : IsWhiteSpace(s[k])
        /\ \/ s[i] = 42
           \/ s[i] = 47 /\ i < Len(s) /\ s[i + 1] \in {42, 47}

\* The offsets where the words of t start: a letter or underscore that no
\* earlier word reaches.
RefTokenStarts(t) ==
    {i \in 0..(Len(t) - 1) :
        /\ IsWordStart(t[i + 1])
        /\ ~\E j \in 0..(i - 1) :
              IsWordStart(t[j + 1]) /\ \A k \in j..i : IsWordPart(t[k + 1])}

RefTokenEnd(t, i) ==
    SetMin({e \in (i + 1)..Len(t) : e = Len(t) \/ ~IsWordPart(t[e + 1])})

RefEligible(t) == {i \in RefTokenStarts(t) : ~RefIsCommentLine(RefLineText(t, i))}

RECURSIVE SortedSeq(_)
SortedSeq(S) ==
    IF S = {} THEN << >>
    ELSE LET m == SetMin(S) IN <<m>> \o SortedSeq(S \ {m})

\* The places of log, and the didOpen that starts the file pass of place i.
Places == 1..Len(log)

DocSites == {"didOpen", "probe", "revert"}

TokenSites == {"probe", "request", "result", "error", "revert", "report"}

\* The last didOpen at or before place i (0: none).
RECURSIVE PassStart(_)
PassStart(i) ==
    IF i = 0 THEN 0
    ELSE IF log[i].site = "didOpen" THEN i
    ELSE PassStart(i - 1)

\* The last document message before place i for document u (0: none).
RECURSIVE LastContentBefore(_, _)
LastContentBefore(i, u) ==
    IF i <= 1 THEN 0
    ELSE IF log[i - 1].site \in DocSites /\ log[i - 1].uri = u THEN i - 1
    ELSE LastContentBefore(i - 1, u)

\* The last document message before place i (0: none).
RECURSIVE LastDocBefore(_)
LastDocBefore(i) ==
    IF i <= 1 THEN 0
    ELSE IF log[i - 1].site \in DocSites THEN i - 1
    ELSE LastDocBefore(i - 1)

OpenText(i) == log[PassStart(i)].text

ReportsBefore(i) ==
    Cardinality({j \in PassStart(i)..(i - 1) : log[j].site = "report"})

\* The measurements reported since the last didOpen.
ReportsInPass ==
    Cardinality({j \in PassStart(Len(log))..Len(log) : j # 0 /\ log[j].site = "report"})

SameToken(i, j) ==
    /\ log[i].index = log[j].index /\ log[i].end = log[j].end
    /\ log[i].file = log[j].file

\* ------------------------------------------------------------------- C1
\* C1: every revert didChange carries exactly the text of its file's didOpen,
\* and whenever a probe didChange is sent the last content sent before it for
\* that document is that text.
C1_RevertRestoresOpenText ==
    \A i \in Places :
        /\ log[i].site = "revert" => log[i].text = OpenText(i)
        /\ log[i].site = "probe" =>
              LET j == LastContentBefore(i, log[i].uri)
              IN  j # 0 /\ log[j].text = OpenText(i)

\* The second word of a file has been reverted.
C1_Witness ==
    \E i \in Places : log[i].site = "revert" /\ ReportsBefore(i) = 1

\* ------------------------------------------------------------------- C2
\* C2: within a file pass the versions sent are 1 (didOpen), 2, 3, ... with no
\* gap or repeat, the k-th measured word's probe has version 2k and its revert
\* 2k+1, and between words the counter is 1 + 2k after k measured words.
C2_VersionsCountUp ==
    /\ \A i \in Places :
          /\ log[i].site = "didOpen" => log[i].version = 1
          /\ log[i].site = "probe" => log[i].version = 2 * ReportsBefore(i) + 2
          /\ log[i].site = "revert" => log[i].version = 2 * ReportsBefore(i) + 3
          /\ log[i].site \in {"probe", "revert"} =>
                LET j == LastDocBefore(i)
                IN  /\ j # 0
                    /\ log[i].version = log[j].version + 1
                    /\ log[i].uri = log[j].uri
    /\ (pc = "scan" \/ (pc = "files" /\ fileIdx > 1)) =>
          versionNumber = 1 + 2 * ReportsInPass

\* Two words of one file have been measured.
C2_Witness == pc = "scan" /\ versionNumber = 5

\* ------------------------------------------------------------------- C3
\* C3: for each measured word the probe didChange, the request, its response
\* and the revert didChange follow one another with nothing in between, the
\* next word's probe comes only after the revert (and the report), and at
\* most one request is outstanding.
C3_CyclesDoNotOverlap ==
    /\ Cardinality(pending) <= 1
    /\ pending # {} => pending = {Len(log)}
    /\ \A i \in Places :
          /\ log[i].site = "request" =>
                i > 1 /\ log[i - 1].site = "probe" /\ SameToken(i, i - 1)
          /\ log[i].site \in {"result", "error"} =>
                i > 1 /\ log[i - 1].site = "request" /\ SameToken(i, i - 1)
          /\ log[i].site = "revert" =>
                i > 1 /\ log[i - 1].site = "result" /\ SameToken(i, i - 1)
          /\ log[i].site = "probe" =>
                i > 1 /\ log[i - 1].site \in {"didOpen", "report"}
          /\ log[i].site = "probe" /\ log[i - 1].site = "report" =>
                log[i - 2].site = "revert"

\* A second word's probe has been sent.
C3_Witness ==
    \E i \in Places : i > 1 /\ log[i].site = "probe" /\ log[i - 1].site = "report"

\* ------------------------------------------------------------------- C4
\* C4: when a measured request ends with a server-reported error, the revert
\* didChange of that word is still sent: no run ends with an error response
\* that no revert of the same word follows.
C4_ErrorStillReverted ==
    pc \in {"done", "failed"} =>
        \A i \in Places :
            log[i].site = "error" =>
                \E j \in (i + 1)..Len(log) : log[j].site = "revert" /\ SameToken(i, j)

\* ------------------------------------------------------------------- C5
\* A Position of the protocol counts lines and characters from zero: pos
\* designates offset o of t when o is on line pos.line, at pos.character.
PositionDesignates(t, line, character, o) ==
    /\ RefLine(t, o) - 1 = line
    /\ RefColumn(t, o) - 1 = character

\* C5: the measured request names the version of the probe didChange sent
\* just before it, and its position designates the first character of the
\* word in the original text.
C5_RequestAtTokenStart ==
    \A i \in Places :
        log[i].site = "request" =>
            /\ i > 1 /\ log[i - 1].site = "probe"
            /\ log[i].version = log[i - 1].version
            /\ log[i].method = requestMethod(config.options.jumpToDef)
            /\ PositionDesignates(OpenText(i), log[i].line, log[i].character,
                                  log[i].index)

\* ------------------------------------------------------------------- C6
\* C6: the probe text is the original text with one space inserted right
\* after the word (jump mode) or with exactly the word removed (completion
\* mode); for "foo bar" and the word bar it is "foo ".
C6_ProbeTextIsOneEdit ==
    \A i \in Places :
        log[i].site = "probe" =>
            LET o == OpenText(i)
                p == log[i].text
                s == log[i].index
                e == log[i].end
            IN  /\ s \in RefTokenStarts(o)
                /\ e = RefTokenEnd(o, s)
                /\ \A k \in 1..s : p[k] = o[k]
                /\ IF config.options.jumpToDef
                   THEN /\ Len(p) = Len(o) + 1
                        /\ \A k \in (s + 1)..e : p[k] = o[k]
                        /\ p[e + 1] = 32
                        /\ \A k \in (e + 1)..Len(o) : p[k + 1] = o[k]
                   ELSE /\ Len(p) = Len(o) - (e - s)
                        /\ \A k \in (e + 1)..Len(o) : p[k - (e - s)] = o[k]
                /\ (o = Str_foo_bar /\ s = 4 /\ ~config.options.jumpToDef) => p = Str_foo_

\* The probe of bar in "foo bar", completion mode.
C6_Witness ==
    \E i \in Places :
        /\ log[i].site = "probe" /\ OpenText(i) = Str_foo_bar
        /\ log[i].index = 4 /\ log[i].text = Str_foo_

\* ------------------------------------------------------------------- C7
\* The words of the current file that the scan has passed and that are not on
\* a comment line.
EligiblePassed == {i \in RefEligible(text) : i < lastIndex}

\* C7: a word that starts on a comment line gets no didChange, no request and
\* no measurement, and leaves the version counter as it was: between words
\* the counter counts the words off comment lines only; "// foo bar" yields
\* nothing.
C7_CommentLineWordsExcluded ==
    /\ \A i \in Places :
          log[i].site \in TokenSites =>
              /\ ~RefIsCommentLine(RefLineText(OpenText(i), log[i].index))
              /\ OpenText(i) # Str_comment_foo_bar
    /\ pc = "scan" =>
          /\ versionNumber = 1 + 2 * Cardinality(EligiblePassed)
          /\ ReportsInPass = Cardinality(EligiblePassed)

\* "// foo bar" has been scanned to its end: bar, at offset 7, was the last
\* word skipped, and the run ended with the didOpen as its only document
\* message.
C7_Witness ==
    /\ pc = "done"
    /\ config.files = <<"a.ql">> /\ disk["a.ql"] = Str_comment_foo_bar
    /\ cur.matchIndex = 7 /\ cur.modifiedVersion = 0
    /\ versionNumber = 1

\* ------------------------------------------------------------------- C8
\* The measurements of one file, in scan order, as <<file, line, column>>.
RefMeasurementsOf(f) ==
    LET t == disk[realpathSync(f)]
        starts == SortedSeq(RefEligible(t))
    IN  [k \in 1..Len(starts) |-> <<f, RefLine(t, starts[k]), RefColumn(t, starts[k])>>]

RECURSIVE RefMeasurementsFrom(_)
RefMeasurementsFrom(k) ==
    IF k > Len(config.files) THEN << >>
    ELSE RefMeasurementsOf(config.files[k]) \o RefMeasurementsFrom(k + 1)

IsReport(e) == e.site = "report"

Reported ==
    LET r == SelectSeq(log, IsReport)
    IN  [k \in 1..Len(r) |-> <<r[k].file, r[k].line, r[k].character>>]

\* C8: the measurements reported are, at every moment, the first ones of the
\* words off comment lines in scan order within a file and in configured file
\* order, one each; a run that completes has reported them all; and each is
\* reported right after its word's revert, before any message of a later
\* word or file.
C8_MeasurementsInScanOrder ==
    /\ LET expected == RefMeasurementsFrom(1)
           reported == Reported
       IN  /\ Len(reported) <= Len(expected)
           /\ reported = SubSeq(expected, 1, Len(reported))
           /\ pc = "done" => reported = expected
    /\ \A i \in Places :
          /\ log[i].site = "report" =>
                /\ i > 1 /\ log[i - 1].site = "revert" /\ SameToken(i, i - 1)
          /\ log[i].site = "revert" /\ i < Len(log) =>
                log[i + 1].site = "report"
    /\ Reported # << >> =>
          /\ pc # "report" =>
                <<measurement.file, measurement.line, measurement.column>>
                    = Reported[Len(Reported)]

\* Two files have been processed to the end and three words reported.
C8_Witness ==
    /\ pc = "done" /\ Len(config.files) = 2 /\ Len(Reported) = 3
    /\ config.files[1] # config.files[2]

\* ------------------------------------------------------------------- C9
\* C9: the initialize request is the first message, the initialized
\* notification follows the initialize response, and no didOpen, didChange,
\* completion or definition message precedes the initialized notification.
C9_HandshakeFirst ==
    /\ log # << >> => log[1].site = "initialize"
    /\ \A i \in Places :
          /\ log[i].site = "initialized" =>
                \E j \in 1..(i - 1) : log[j].site = "initializeResult"
          /\ log[i].site \in {"didOpen", "probe", "request", "revert"} =>
                \E j \in 1..(i - 1) : log[j].site = "initialized"

\* A document has been opened.
C9_Witness == \E i \in Places : log[i].site = "didOpen"

\* ------------------------------------------------------------------ C10
\* C10: every didOpen has version 1 and the language identifier of the
\* configuration (the --language value, or the default).
C10_DidOpenDeclaresConfiguredLanguage ==
    \A i \in Places :
        log[i].site = "didOpen" =>
            /\ log[i].version = 1
            /\ log[i].languageId = config.options.language

\* ------------------------------------------------------------------ C11
\* C11: when the server answers the initialize request and every measured
\* request, the run goes through every configured file and reaches shutdown.
C11_RunReachesShutdown == <>(pc = "done" /\ fileIdx = Len(config.files) + 1)

\* The same for the runs in which every answer is a result.
RunReachesShutdownUnlessError ==
    <>(\/ pc = "done" /\ fileIdx = Len(config.files) + 1
       \/ \E i \in Places : log[i].site \in {"initializeError", "error"})

\* ------------------------------------------------------------------ C12
\* C12: a run that completes has sent the exit notification exactly once, as
\* its last message, after the revert of the last word, and the notification
\* has been written to the transport when the transport is released and the
\* process ends.
C12_ExitWrittenBeforeRelease ==
    /\ \A i \in Places : log[i].site = "exit" => i = Len(log) /\ pc = "done"
    /\ pc = "done" =>
          /\ log # << >> /\ log[Len(log)].site = "exit"
          /\ exitWritten

\* ------------------------------------------------------------------ C13
\* C13: the numberOfResults of a measurement is 0 for no result, the length
\* of a list, the length of the items of an object carrying items, and 1 for
\* any other result: 0 for an empty list, 3 for a list of three, 2 for
\* {items: [x, y]}.
C13_ResultCardinality ==
    (log # << >> /\ log[Len(log)].site = "report") =>
        LET n == measurement.numberOfResults
        IN  /\ result.shape = "null" => n = 0
            /\ result.shape = "array" => n = result.length
            /\ result.shape = "items" => n = result.length
            /\ result.shape = "object" => n = 1
            /\ result = [shape |-> "array", length |-> 0] => n = 0
            /\ result = [shape |-> "array", length |-> 3] => n = 3
            /\ result = [shape |-> "items", length |-> 2] => n = 2

\* A measurement of a result {items: [x, y]} has been reported.
C13_Witness ==
    /\ log # << >> /\ log[Len(log)].site = "report"
    /\ result = [shape |-> "items", length |-> 2]
    /\ measurement.numberOfResults = 2

\* ------------------------------------------------------------------ C20
\* C20: over the whole session the versions sent for one document URI, in its
\* didOpen and didChange notifications, are strictly increasing.
C20_VersionsIncreasePerUri ==
    \A i \in Places : \A j \in Places :
        (/\ i < j
         /\ log[i].site \in DocSites /\ log[j].site \in DocSites
         /\ log[i].uri = log[j].uri) => log[i].version < log[j].version

\* ------------------------------------------------------------------ C16
\* C16: for every offset o of a text, its end included, get1BasedLineAndColumn
\* answers the 1-based number of the physical line that holds o (one plus the
\* terminators that end at or before o) and the 1-based column of o on it.
C16_LineAndColumnOfEveryOffset ==
    pc = "looked" =>
        /\ cur.line = RefLine(text, cur.matchIndex)
        /\ cur.column = RefColumn(text, cur.matchIndex)

\* The same for the offsets before the end of the text, and for the end of a
\* text that is empty or ends with a line terminator.
LineAndColumnBeforeEnd ==
    (/\ pc = "looked"
     /\ \/ cur.matchIndex < Len(text)
        \/ Len(text) = 0
        \/ TerminatorEndsAt(text, Len(text))) =>
        /\ cur.line = RefLine(text, cur.matchIndex)
        /\ cur.column = RefColumn(text, cur.matchIndex)

\* ------------------------------------------------------------------ C17
\* The greatest 0-based index of a whose entry is at most v; 0 when v is
\* before every entry.
RefGreatestIndex(a, v) ==
    LET atMost == {i \in 0..(Len(a) - 1) : a[i + 1] <= v}
    IN  IF atMost = {} THEN 0 ELSE SetMax(atMost)

\* C17: getLineFromOffset answers the greatest index whose line start is at
\* most the offset (0 before every start, the last index at or after the
\* largest), for every sorted array and for every line table built from a
\* text; an offset equal to a line start gets a line that starts there.
C17_GreatestLineStartAtMost ==
    /\ pc = "searched" =>
          /\ cur.line = RefGreatestIndex(lineTable, cur.matchIndex)
          /\ (\E k \in 1..Len(lineTable) : lineTable[k] = cur.matchIndex) =>
                lineTable[cur.line + 1] = cur.matchIndex
    /\ pc = "looked" =>
          /\ cur.line - 1 = RefGreatestIndex(lineTable, cur.matchIndex)
          /\ (\E k \in 1..Len(lineTable) : lineTable[k] = cur.matchIndex) =>
                lineTable[cur.line] = cur.matchIndex

\* An offset equal to an inner entry of an array of three distinct entries has
\* been searched.
C17_Witness ==
    /\ pc = "searched"
    /\ Len(lineTable) >= 3
    /\ lineTable[1] < lineTable[2] /\ lineTable[2] < lineTable[3]
    /\ cur.matchIndex = lineTable[2] /\ cur.line = 1

\* ------------------------------------------------------------------ C18
\* The constructor's last entry is the end-of-text mark, not a line start:
\* the text is not empty and no terminator ends at its end.
HasEndOfTextMark == Len(text) > 0 /\ ~TerminatorEndsAt(text, Len(text))

LinesRecorded == Len(lineTable) - (IF HasEndOfTextMark THEN 1 ELSE 0)

\* C18: the lines the line table records (its line starts, the end-of-text
\* mark left out) are one more than the line terminators of the text, a
\* CR-LF pair counted once; for "a\r\nb" they are two.
C18_CrLfIsOneTerminator ==
    pc \in {"lookup", "looked"} =>
        /\ LinesRecorded = 1 + Cardinality(TerminatorsUpTo(text, Len(text)))
        /\ text = Str_a_crlf_b => LinesRecorded = 2 /\ lineTable = <<0, 3, 4>>

\* The line table of "a\r\nb" has been built.
C18_Witness == pc = "lookup" /\ text = Str_a_crlf_b /\ Len(lineTable) = 3

\* ------------------------------------------------------------------ C19
\* C19: the line starts of every text are strictly increasing, start with 0
\* and do not exceed the length of the text; for the empty text they are the
\* single entry 0.
C19_LineStartsIncrease ==
    pc \in {"lookup", "looked"} =>
        /\ lineTable # << >> /\ lineTable[1] = 0
        /\ \A k \in 1..(Len(lineTable) - 1) : lineTable[k] < lineTable[k + 1]
        /\ \A k \in 1..Len(lineTable) : lineTable[k] <= Len(text)
        /\ text = << >> => lineTable = <<0>>

\* The line table of a text that ends with a line terminator has been built.
C19_Witness ==
    /\ pc = "lookup" /\ Len(text) >= 2
    /\ text[Len(text)] = lineFeed
    /\ lineTable[Len(lineTable)] = Len(text)

\* ------------------------------------------------------------------ C21
Str_lf_crlf_cr_a == <<lineFeed, carriageReturn, lineFeed, carriageReturn, 97>>

\* C21: for every word the scan finds, the line the line table gives to the
\* start of the word is the place of an element of text.split(/\r\n?|\n/),
\* and that element is the text of the physical line that holds the word:
\* the comment test is made on the word's own line.
C21_SplitLineIsTokenLine ==
    pc = "scanned" =>
        /\ cur.matchIndex \in RefTokenStarts(text)
        /\ cur.line \in 1..Len(lines)
        /\ lines[cur.line] = RefLineText(text, cur.matchIndex)
        /\ onCommentLine(lines, cur.line)
              <=> RefIsCommentLine(RefLineText(text, cur.matchIndex))

\* The word after an LF, a CR-LF and a lone CR has been found, on line 4.
C21_Witness ==
    /\ pc = "scanned" /\ text = Str_lf_crlf_cr_a
    /\ cur.matchIndex = 4 /\ cur.line = 4 /\ lines[4] = <<97>>
====
